---- MODULE Spec2Model ----
(***************************************************************************)
(* Status-propagation engine of the task tracker (src/main.py).            *)
(*                                                                         *)
(* The entity store holds three tables: task, subtask and dependency.      *)
(* Every JSON API handler is one action: it reads the store, writes it,    *)
(* and answers with an HTTP code.  A handler that aborts keeps what it     *)
(* committed before the abort (db.session.commit()) and loses the rest     *)
(* (the session is removed at teardown, src/main.py:47-49).  SpecSteps     *)
(* serves three of the handlers one commit at a time instead.              *)
(*                                                                         *)
(* Not part of the state: title, slug, description, priority, week and     *)
(* the week dates of a task, and the title of a subtask.  No handler       *)
(* reads them to decide status, progress, started_at or completed_at.      *)
(*                                                                         *)
(* progress is a float with one decimal place in the source; here it is    *)
(* the integer number of tenths of a percent (100.0 is 100 * Tenths).      *)
(* Dates are day numbers; NoDate stands for None.                          *)
(***************************************************************************)
EXTENDS Integers, FiniteSets, Sequences, TLC

\* ---------------------------------------------------------------- bounds
\* Spec: two tasks, with every status a request can carry.
MaxTasks == 2
MaxSubtasks == 3
MaxDeps == 2
MaxDay == 1
\* SpecWide: three tasks, so that a task can have two dependencies, two
\* dependents or a chain; tasks are created with the default status, on one
\* day, and the three tables hold at most WideRows rows together.
WideTasks == 3
WideSubtasks == 1
WideDeps == 2
WideRows == 6
\* SpecDeep: three tasks joined by up to three edges, so that two dependents
\* of one task can depend on each other; nothing is deleted.
DeepTasks == 3
DeepSubtasks == 1
DeepDeps == 3
DeepRows == 7
\* SpecDated: two tasks over two days, so that a date can be set on one day
\* and met again on the next.
DatedTasks == 2
DatedSubtasks == 2
DatedDeps == 1
DatedDays == 2
\* SpecSteps: two tasks; one call at a time is served commit by commit.
StepTasks == 2
StepSubtasks == 2
StepDeps == 1
\* SpecMany: one task seeded with so many subtasks that one of them is less
\* than half a tenth of a percent of the whole.
ManySubtasks == 2001

\* ------------------------------------------------------------- constants
Tenths == 10
NoDate == 0
Full == 100 * Tenths

\* Values a request can carry.  0 stands for a missing or zero id, "" for
\* a missing or empty string.
StatusInputs == {"", "todo", "in_progress", "done", "blocked", "archived"}
TitleInputs == {"", "t"}

\* What the calls of a specification range over.
Narrow ==
    [tasks |-> MaxTasks, subtasks |-> MaxSubtasks, deps |-> MaxDeps,
     rows |-> MaxTasks + MaxSubtasks + MaxDeps,
     days |-> 1..MaxDay, create |-> StatusInputs]
Wide ==
    [tasks |-> WideTasks, subtasks |-> WideSubtasks, deps |-> WideDeps,
     rows |-> WideRows,
     days |-> {1}, create |-> {""}]
Deep ==
    [tasks |-> DeepTasks, subtasks |-> DeepSubtasks, deps |-> DeepDeps,
     rows |-> DeepRows,
     days |-> {1}, create |-> {""}]
Dated ==
    [tasks |-> DatedTasks, subtasks |-> DatedSubtasks, deps |-> DatedDeps,
     rows |-> DatedTasks + DatedSubtasks + DatedDeps,
     days |-> 1..DatedDays, create |-> StatusInputs]
Stepped ==
    [tasks |-> StepTasks, subtasks |-> StepSubtasks, deps |-> StepDeps,
     rows |-> StepTasks + StepSubtasks + StepDeps,
     days |-> {1}, create |-> {""}]
Many ==
    [tasks |-> 1, subtasks |-> 1, deps |-> 0,
     rows |-> 2,
     days |-> {1}, create |-> {""}]

\* Seed files: a sequence of tasks, each with a status and a number of
\* subtasks, none with a depends_on entry.
SeedInputs == {<<[status |-> "todo", subtasks |-> ManySubtasks]>>}

VARIABLES tasks, subtasks, deps, last, call

vars == <<tasks, subtasks, deps, last, call>>

\* The three tables as one value.
Store == [tasks |-> tasks, subtasks |-> subtasks, deps |-> deps]

\* ---------------------------------------------------------------- helpers
\* (x + 1 \notin S holds of the largest element; it spares the comparison
\* with every element for the others.)
MaxOf(S) == CHOOSE x \in S : x + 1 \notin S /\ \A y \in S : y <= x
MinOf(S) == CHOOSE x \in S : \A y \in S : x <= y

\* Integer primary key of a SQLite table: one more than the largest id.
NextId(table) == IF DOMAIN table = {} THEN 1 ELSE MaxOf(DOMAIN table) + 1

Without(table, ids) == [k \in DOMAIN table \ ids |-> table[k]]
With(table, k, v) == [x \in DOMAIN table \cup {k} |-> IF x = k THEN v ELSE table[x]]

SetTask(db, tid, t) == [db EXCEPT !.tasks = With(db.tasks, tid, t)]

SubtasksOf(db, tid) == {s \in DOMAIN db.subtasks : db.subtasks[s].task_id = tid}

\* round(x, 1) of x = 100 * done / total, in tenths.  Rounding half up and
\* Python's rounding differ on ties only; no tie occurs for total < 16, nor
\* for total = ManySubtasks.
RoundTenths(done, total) == (2 * Full * done + total) \div (2 * total)

\* The percentage cut to a tenth instead of rounded.
compute_task_progress_Truncated(db, tid) ==
    LET mine == SubtasksOf(db, tid)
        total == Cardinality(mine)
        done == Cardinality({s \in mine : db.subtasks[s].done})
    IN  IF total = 0
        THEN (IF db.tasks[tid].status = "done" THEN Full ELSE 0)
        ELSE (Full * done) \div total

compute_task_progress(db, tid) ==
    LET mine == SubtasksOf(db, tid)
        total == Cardinality(mine)
        done == Cardinality({s \in mine : db.subtasks[s].done})
    IN  IF total = 0
        THEN (IF db.tasks[tid].status = "done" THEN Full ELSE 0)
        ELSE RoundTenths(done, total)

\* An edge whose target task is missing counted as blocking.
has_blocking_dependencies_CountsMissing(db, tid) ==
    \E d \in DOMAIN db.deps :
        /\ db.deps[d].task_id = tid
        /\ (\/ db.deps[d].depends_on_id \notin DOMAIN db.tasks
            \/ db.tasks[db.deps[d].depends_on_id].status # "done")

has_blocking_dependencies(db, tid) ==
    \E d \in DOMAIN db.deps :
        /\ db.deps[d].task_id = tid
        /\ db.deps[d].depends_on_id \in DOMAIN db.tasks
        /\ db.tasks[db.deps[d].depends_on_id].status # "done"

enforce_blocking_status(db, tid) ==
    LET t == db.tasks[tid]
    IN  IF t.status # "done" /\ has_blocking_dependencies(db, tid)
        THEN SetTask(db, tid, [t EXCEPT !.status = "blocked"])
        ELSE IF t.status = "blocked" /\ ~has_blocking_dependencies(db, tid)
        THEN SetTask(db, tid,
                 [t EXCEPT !.status = IF t.progress > 0 THEN "in_progress" ELSE "todo"])
        ELSE db

\* The loop body without its check of the dependencies: a blocked
\* dependent is released by its progress alone.
CascadeStep_Unchecked(db, tid) ==
    LET t0 == db.tasks[tid]
        t == [t0 EXCEPT !.progress = compute_task_progress(db, tid)]
    IN  IF t.status = "blocked"
        THEN SetTask(db, tid,
                 [t EXCEPT !.status = IF t.progress = Full THEN "done"
                                      ELSE IF t.progress > 0 THEN "in_progress"
                                      ELSE "todo"])
        ELSE SetTask(db, tid, t)

\* Body of the loop of update_dependents_status for one dependent task.
CascadeStep(db, tid) ==
    LET t0 == db.tasks[tid]
        t == [t0 EXCEPT !.progress = compute_task_progress(db, tid)]
    IN  IF has_blocking_dependencies(db, tid)
        THEN (IF t.status # "done"
              THEN SetTask(db, tid, [t EXCEPT !.status = "blocked"])
              ELSE SetTask(db, tid, t))
        ELSE IF t.status = "blocked"
        THEN SetTask(db, tid,
                 [t EXCEPT !.status = IF t.progress = Full THEN "done"
                                      ELSE IF t.progress > 0 THEN "in_progress"
                                      ELSE "todo"])
        ELSE SetTask(db, tid, t)

\* The edges are visited in the order the query returns them: by edge id.
\* edges is the table the edges were read from.
RECURSIVE CascadeLoop(_, _, _)
CascadeLoop(db, edges, ids) ==
    IF ids = {} THEN db
    ELSE LET d == MinOf(ids)
             tid == edges[d].task_id
         IN  CascadeLoop(IF tid \in DOMAIN db.tasks THEN CascadeStep(db, tid) ELSE db,
                         edges, ids \ {d})

\* The cascade carried one level further: after the dependents of the
\* changed task, the dependents of each of them.
RECURSIVE SecondHop(_, _, _)
SecondHop(db, edges, ids) ==
    IF ids = {} THEN db
    ELSE LET d == MinOf(ids)
             tid == edges[d].task_id
         IN  SecondHop(CascadeLoop(db, db.deps,
                                   {e \in DOMAIN db.deps : db.deps[e].depends_on_id = tid}),
                       edges, ids \ {d})

update_dependents_status_TwoHops(db, changed_task_id) ==
    LET ids == {d \in DOMAIN db.deps : db.deps[d].depends_on_id = changed_task_id}
    IN  SecondHop(CascadeLoop(db, db.deps, ids), db.deps, ids)

update_dependents_status(db, changed_task_id) ==
    CascadeLoop(db, db.deps,
                {d \in DOMAIN db.deps : db.deps[d].depends_on_id = changed_task_id})

\* --------------------------------------------------------------- handlers
\* Each handler is a function of the store and the request; it returns the
\* committed store and the HTTP code.

\* A task row as the first commit inserts it (column defaults).
NewTask(status) ==
    [status |-> status, progress |-> 0, started_at |-> NoDate, completed_at |-> NoDate]

\* An answer: the committed store, the HTTP code and, for a call that
\* answers with a row (a task, a subtask, an edge), the id of that row.
Reply(db, code) == [db |-> db, code |-> code, ret |-> 0]
ReplyRow(db, code, id) == [db |-> db, code |-> code, ret |-> id]

SetSubtasksDone(db, tid, flag) ==
    [db EXCEPT !.subtasks =
        [s \in DOMAIN @ |-> IF @[s].task_id = tid THEN [@[s] EXCEPT !.done = flag] ELSE @[s]]]

Recompute(db, tid) ==
    SetTask(db, tid, [db.tasks[tid] EXCEPT !.progress = compute_task_progress(db, tid)])

\* POST /api/tasks
api_tasks(db, title, status) ==
    IF title = "" THEN Reply(db, 400)
    ELSE LET tid == NextId(db.tasks)
             db1 == SetTask(db, tid, NewTask(IF status = "" THEN "todo" ELSE status))
         IN  ReplyRow(enforce_blocking_status(Recompute(db1, tid), tid), 200, tid)

\* The writes of the status change with the dates of a done task set to
\* the day of the call whether or not they were set.
StatusTransition_Overwrites(db, task_id, new_status, today) ==
    LET t == db.tasks[task_id]
        db1 == IF new_status = "done"
               THEN SetTask(SetSubtasksDone(db, task_id, TRUE), task_id,
                        [t EXCEPT !.status = "done",
                                  !.completed_at = today,
                                  !.started_at = today])
               ELSE IF new_status = "todo"
               THEN SetTask(SetSubtasksDone(db, task_id, FALSE), task_id,
                        [t EXCEPT !.status = "todo", !.completed_at = NoDate])
               ELSE SetTask(db, task_id,
                        [t EXCEPT !.status = "in_progress",
                                  !.started_at = IF @ = NoDate THEN today ELSE @])
        db2 == enforce_blocking_status(Recompute(db1, task_id), task_id)
    IN  update_dependents_status(db2, task_id)

\* api_update_task_status once the request is accepted, commit by commit:
\* the writes up to the first db.session.commit() ...
StatusWrites(db, task_id, new_status, today) ==
    LET t == db.tasks[task_id]
    IN  IF new_status = "done"
        THEN SetTask(SetSubtasksDone(db, task_id, TRUE), task_id,
                 [t EXCEPT !.status = "done",
                           !.completed_at = IF @ = NoDate THEN today ELSE @,
                           !.started_at = IF @ = NoDate THEN today ELSE @])
        ELSE IF new_status = "todo"
        THEN SetTask(SetSubtasksDone(db, task_id, FALSE), task_id,
                 [t EXCEPT !.status = "todo", !.completed_at = NoDate])
        ELSE SetTask(db, task_id,
                 [t EXCEPT !.status = "in_progress",
                           !.started_at = IF @ = NoDate THEN today ELSE @])

\* ... the writes up to the second ...
StatusRecompute(db, task_id) == enforce_blocking_status(Recompute(db, task_id), task_id)

\* ... and the whole, ending with the cascade and its commit.
StatusTransition(db, task_id, new_status, today) ==
    update_dependents_status(
        StatusRecompute(StatusWrites(db, task_id, new_status, today), task_id), task_id)

\* The handler without its check of the dependencies.
api_update_task_status_Unchecked(db, task_id, new_status, today) ==
    IF task_id \notin DOMAIN db.tasks THEN Reply(db, 404)
    ELSE IF new_status \notin {"todo", "in_progress", "done"} THEN Reply(db, 400)
    ELSE Reply(StatusTransition(db, task_id, new_status, today), 200)

\* POST /api/tasks/<task_id>/status
api_update_task_status(db, task_id, new_status, today) ==
    IF task_id \notin DOMAIN db.tasks THEN Reply(db, 404)
    ELSE IF new_status \notin {"todo", "in_progress", "done"} THEN Reply(db, 400)
    ELSE IF new_status = "done" /\ has_blocking_dependencies(db, task_id) THEN Reply(db, 400)
    ELSE Reply(StatusTransition(db, task_id, new_status, today), 200)

\* POST /api/tasks/<task_id>/edit.  The edited fields are not part of the
\* state; the handler still recomputes progress and the blocking status.
api_edit_task(db, task_id) ==
    IF task_id \notin DOMAIN db.tasks THEN Reply(db, 404)
    ELSE Reply(enforce_blocking_status(Recompute(db, task_id), task_id), 200)

\* The loop recomputing progress only, without enforce_blocking_status.
RECURSIVE DeleteLoop_ProgressOnly(_, _, _)
DeleteLoop_ProgressOnly(db, edges, ids) ==
    IF ids = {} THEN db
    ELSE LET d == MinOf(ids)
             tid == edges[d].task_id
         IN  DeleteLoop_ProgressOnly(IF tid \in DOMAIN db.tasks THEN Recompute(db, tid) ELSE db,
                                     edges, ids \ {d})

\* Loop of api_delete_task over the tasks that depended on the deleted one.
RECURSIVE DeleteLoop(_, _, _)
DeleteLoop(db, edges, ids) ==
    IF ids = {} THEN db
    ELSE LET d == MinOf(ids)
             tid == edges[d].task_id
         IN  DeleteLoop(IF tid \in DOMAIN db.tasks
                        THEN enforce_blocking_status(Recompute(db, tid), tid)
                        ELSE db,
                        edges, ids \ {d})

\* The handler leaving the edges from the deleted task in the store.
api_delete_task_KeepsOutgoing(db, task_id) ==
    IF task_id \notin DOMAIN db.tasks THEN Reply(db, 404)
    ELSE LET incoming == {d \in DOMAIN db.deps : db.deps[d].depends_on_id = task_id}
             db1 == [tasks |-> Without(db.tasks, {task_id}),
                     subtasks |-> Without(db.subtasks, SubtasksOf(db, task_id)),
                     deps |-> Without(db.deps, incoming)]
         IN  Reply(DeleteLoop(db1, db.deps, incoming), 200)

\* The edges on task_id, read before anything is deleted.
Incoming(db, task_id) == {d \in DOMAIN db.deps : db.deps[d].depends_on_id = task_id}

\* The deletions of api_delete_task, up to its first db.session.commit().
DeleteRows(db, task_id) ==
    LET outgoing == {d \in DOMAIN db.deps : db.deps[d].task_id = task_id}
    IN  [tasks |-> Without(db.tasks, {task_id}),
         subtasks |-> Without(db.subtasks, SubtasksOf(db, task_id)),
         deps |-> Without(db.deps, Incoming(db, task_id) \cup outgoing)]

\* POST /api/tasks/<task_id>/delete
api_delete_task(db, task_id) ==
    IF task_id \notin DOMAIN db.tasks THEN Reply(db, 404)
    ELSE Reply(DeleteLoop(DeleteRows(db, task_id), db.deps, Incoming(db, task_id)), 200)

\* POST /api/subtasks
api_create_subtask(db, task_id, title, today) ==
    IF task_id = 0 \/ title = "" THEN Reply(db, 400)
    ELSE IF task_id \notin DOMAIN db.tasks THEN Reply(db, 404)
    ELSE LET sid == NextId(db.subtasks)
             db1 == [db EXCEPT !.subtasks = With(@, sid, [task_id |-> task_id, done |-> FALSE])]
             t1 == [db1.tasks[task_id] EXCEPT !.progress = compute_task_progress(db1, task_id)]
             t2 == IF t1.status = "done" /\ t1.progress < Full
                   THEN [t1 EXCEPT !.status = "in_progress", !.completed_at = NoDate]
                   ELSE t1
             t3 == IF t2.progress > 0 /\ t2.started_at = NoDate
                   THEN [t2 EXCEPT !.started_at = today]
                   ELSE t2
         IN  ReplyRow(enforce_blocking_status(SetTask(db1, task_id, t3), task_id), 200, sid)

\* The writes of the toggle with completed_at left as it is when the task
\* becomes in_progress.
ToggleApply_KeepsCompleted(db, subtask_id, today) ==
    LET tid == db.subtasks[subtask_id].task_id
        db1 == [db EXCEPT !.subtasks[subtask_id].done = ~@]
        t1 == [db1.tasks[tid] EXCEPT !.progress = compute_task_progress(db1, tid)]
        t2 == IF t1.progress = Full /\ ~has_blocking_dependencies(db1, tid)
              THEN [t1 EXCEPT !.status = "done",
                              !.completed_at = IF @ = NoDate THEN today ELSE @,
                              !.started_at = IF @ = NoDate THEN today ELSE @]
              ELSE IF t1.progress > 0 /\ t1.status # "done"
              THEN [t1 EXCEPT !.status = "in_progress",
                              !.started_at = IF @ = NoDate THEN today ELSE @]
              ELSE IF ~has_blocking_dependencies(db1, tid)
              THEN [t1 EXCEPT !.status = "todo", !.completed_at = NoDate]
              ELSE t1
        db2 == enforce_blocking_status(SetTask(db1, tid, t2), tid)
    IN  update_dependents_status(db2, tid)

\* api_toggle_subtask once the request is accepted, commit by commit: the
\* flip and the first db.session.commit() ...
ToggleFlip(db, subtask_id) == [db EXCEPT !.subtasks[subtask_id].done = ~@]

\* ... the status of the parent, up to the second commit ...
ToggleDerive(db1, tid, today) ==
    LET t1 == [db1.tasks[tid] EXCEPT !.progress = compute_task_progress(db1, tid)]
        t2 == IF t1.progress = Full /\ ~has_blocking_dependencies(db1, tid)
              THEN [t1 EXCEPT !.status = "done",
                              !.completed_at = IF @ = NoDate THEN today ELSE @,
                              !.started_at = IF @ = NoDate THEN today ELSE @]
              ELSE IF t1.progress > 0 /\ t1.status # "done"
              THEN [t1 EXCEPT !.status = "in_progress",
                              !.started_at = IF @ = NoDate THEN today ELSE @,
                              !.completed_at = NoDate]
              ELSE IF ~has_blocking_dependencies(db1, tid)
              THEN [t1 EXCEPT !.status = "todo", !.completed_at = NoDate]
              ELSE t1
    IN  enforce_blocking_status(SetTask(db1, tid, t2), tid)

\* ... and the whole, ending with the cascade and its commit.
ToggleApply(db, subtask_id, today) ==
    LET tid == db.subtasks[subtask_id].task_id
    IN  update_dependents_status(ToggleDerive(ToggleFlip(db, subtask_id), tid, today), tid)

\* The handler without its check of the dependencies.
api_toggle_subtask_Unchecked(db, subtask_id, today) ==
    IF subtask_id \notin DOMAIN db.subtasks THEN Reply(db, 404)
    ELSE IF db.subtasks[subtask_id].task_id \notin DOMAIN db.tasks THEN Reply(db, 404)
    ELSE Reply(ToggleApply(db, subtask_id, today), 200)

\* POST /api/subtasks/<subtask_id>/toggle
api_toggle_subtask(db, subtask_id, today) ==
    IF subtask_id \notin DOMAIN db.subtasks THEN Reply(db, 404)
    ELSE IF db.subtasks[subtask_id].task_id \notin DOMAIN db.tasks THEN Reply(db, 404)
    ELSE IF has_blocking_dependencies(db, db.subtasks[subtask_id].task_id) THEN Reply(db, 400)
    ELSE Reply(ToggleApply(db, subtask_id, today), 200)

\* The handler making a task done without setting completed_at.
api_delete_subtask_NoCompleted(db, subtask_id, today) ==
    IF subtask_id \notin DOMAIN db.subtasks THEN Reply(db, 404)
    ELSE LET tid == db.subtasks[subtask_id].task_id
             db1 == [db EXCEPT !.subtasks = Without(@, {subtask_id})]
         IN  IF tid \notin DOMAIN db.tasks THEN Reply(db1, 200)
             ELSE IF has_blocking_dependencies(db, tid) THEN Reply(db, 400)
             ELSE LET t1 == [db1.tasks[tid] EXCEPT !.progress = compute_task_progress(db1, tid)]
                      t2 == IF t1.progress = Full /\ ~has_blocking_dependencies(db1, tid)
                            THEN [t1 EXCEPT !.status = "done"]
                            ELSE LET t3 == IF t1.status = "done" /\ t1.progress < Full
                                           THEN [t1 EXCEPT
                                                    !.status = IF t1.progress > 0
                                                               THEN "in_progress" ELSE "todo",
                                                    !.completed_at = NoDate]
                                           ELSE t1
                                 IN  IF t3.progress > 0 /\ t3.started_at = NoDate
                                     THEN [t3 EXCEPT !.started_at = today]
                                     ELSE t3
                  IN  Reply(enforce_blocking_status(SetTask(db1, tid, t2), tid), 200)

\* POST /api/subtasks/<subtask_id>/delete
api_delete_subtask(db, subtask_id, today) ==
    IF subtask_id \notin DOMAIN db.subtasks THEN Reply(db, 404)
    ELSE LET tid == db.subtasks[subtask_id].task_id
             db1 == [db EXCEPT !.subtasks = Without(@, {subtask_id})]
         IN  IF tid \notin DOMAIN db.tasks THEN Reply(db1, 200)
             ELSE IF has_blocking_dependencies(db, tid) THEN Reply(db, 400)
             ELSE LET t1 == [db1.tasks[tid] EXCEPT !.progress = compute_task_progress(db1, tid)]
                      t2 == IF t1.progress = Full /\ ~has_blocking_dependencies(db1, tid)
                            THEN [t1 EXCEPT !.status = "done",
                                            !.completed_at = IF @ = NoDate THEN today ELSE @]
                            ELSE LET t3 == IF t1.status = "done" /\ t1.progress < Full
                                           THEN [t1 EXCEPT
                                                    !.status = IF t1.progress > 0
                                                               THEN "in_progress" ELSE "todo",
                                                    !.completed_at = NoDate]
                                           ELSE t1
                                 IN  IF t3.progress > 0 /\ t3.started_at = NoDate
                                     THEN [t3 EXCEPT !.started_at = today]
                                     ELSE t3
                  IN  Reply(enforce_blocking_status(SetTask(db1, tid, t2), tid), 200)

\* The handler without its lookup of an existing edge.
api_add_dependency_NoLookup(db, task_id, depends_on_id) ==
    LET dep == NextId(db.deps)
        db1 == [db EXCEPT !.deps = With(@, dep,
                              [task_id |-> task_id, depends_on_id |-> depends_on_id])]
    IN  IF task_id = 0 \/ depends_on_id = 0 \/ task_id = depends_on_id THEN Reply(db, 400)
        ELSE IF task_id \notin DOMAIN db.tasks THEN Reply(db1, 404)
        ELSE ReplyRow(enforce_blocking_status(db1, task_id), 200, dep)

\* The handler accepting an edge from a task to itself.
api_add_dependency_SelfAllowed(db, task_id, depends_on_id) ==
    LET exists == {d \in DOMAIN db.deps :
                      db.deps[d].task_id = task_id /\ db.deps[d].depends_on_id = depends_on_id}
        dep == NextId(db.deps)
        db1 == [db EXCEPT !.deps = With(@, dep,
                              [task_id |-> task_id, depends_on_id |-> depends_on_id])]
    IN  IF task_id = 0 \/ depends_on_id = 0 THEN Reply(db, 400)
        ELSE IF exists # {} THEN ReplyRow(db, 200, MinOf(exists))
        ELSE IF task_id \notin DOMAIN db.tasks THEN Reply(db1, 404)
        ELSE ReplyRow(enforce_blocking_status(db1, task_id), 200, dep)

\* POST /api/dependencies.  The new edge is committed before the task is
\* looked up, so a 404 leaves the edge in the store.
api_add_dependency(db, task_id, depends_on_id) ==
    LET exists == {d \in DOMAIN db.deps :
                      db.deps[d].task_id = task_id /\ db.deps[d].depends_on_id = depends_on_id}
        dep == NextId(db.deps)
        db1 == [db EXCEPT !.deps = With(@, dep,
                              [task_id |-> task_id, depends_on_id |-> depends_on_id])]
    IN  IF task_id = 0 \/ depends_on_id = 0 \/ task_id = depends_on_id THEN Reply(db, 400)
        ELSE IF exists # {} THEN ReplyRow(db, 200, MinOf(exists))
        ELSE IF task_id \notin DOMAIN db.tasks THEN Reply(db1, 404)
        ELSE ReplyRow(enforce_blocking_status(db1, task_id), 200, dep)

\* POST /api/dependencies/<dep_id>/delete.  The deletion is committed
\* before the task is looked up; enforce_blocking_status(None) raises.
api_delete_dependency(db, dep_id) ==
    IF dep_id \notin DOMAIN db.deps THEN Reply(db, 404)
    ELSE LET tid == db.deps[dep_id].task_id
             db1 == [db EXCEPT !.deps = Without(@, {dep_id})]
         IN  IF tid \notin DOMAIN db.tasks THEN Reply(db1, 500)
             ELSE Reply(enforce_blocking_status(db1, tid), 200)

\* flask db-seed (a command, not a request): the three tables are emptied
\* and filled from the seed file, the subtasks none done; then progress and
\* blocking status of every task are computed.
RECURSIVE SeedOffset(_, _)
SeedOffset(payload, i) ==
    IF i = 1 THEN 0 ELSE SeedOffset(payload, i - 1) + payload[i - 1].subtasks

RECURSIVE SeedLoop(_, _)
SeedLoop(db, ids) ==
    IF ids = {} THEN db
    ELSE LET tid == MinOf(ids)
         IN  SeedLoop(enforce_blocking_status(Recompute(db, tid), tid), ids \ {tid})

db_seed(payload) ==
    LET n == Len(payload)
        owner(s) == CHOOSE i \in 1..n :
                        SeedOffset(payload, i) < s /\ s <= SeedOffset(payload, i + 1)
        db1 == [tasks |-> [i \in 1..n |-> NewTask(payload[i].status)],
                subtasks |-> [s \in 1..SeedOffset(payload, n + 1) |->
                                 [task_id |-> owner(s), done |-> FALSE]],
                deps |-> <<>>]
    IN  SeedLoop(db1, 1..n)

\* ------------------------------------------------------------------ state
\* last is a history variable: the record of one API call, that is the
\* request (id is the id in the URL or the task_id of the body, arg is
\* depends_on_id or the date of the call), the answer and the store before
\* the call.  A
\* behaviour replays any number of calls unrecorded (last = NoCall) and
\* records at most one, the call under observation, and ends there: every
\* call from every reachable store is the recorded call of some behaviour.
Empty == [tasks |-> <<>>, subtasks |-> <<>>, deps |-> <<>>]
NoCall ==
    [op |-> "none", id |-> 0, arg |-> 0, status |-> "", code |-> 0, ret |-> 0, before |-> Empty]

\* call is the call being served commit by commit, if any: the request, the
\* parent task of a toggled subtask, the commit the call has reached and the
\* store it started from.  Only SpecSteps serves calls this way.
Idle ==
    [op |-> "none", id |-> 0, task |-> 0, status |-> "", today |-> 0, pc |-> "idle",
     start |-> Empty]

Init ==
    /\ tasks = <<>>
    /\ subtasks = <<>>
    /\ deps = <<>>
    /\ last = NoCall
    /\ call = Idle

\* Number of rows in the three tables.
Rows == Cardinality(DOMAIN tasks) + Cardinality(DOMAIN subtasks) + Cardinality(DOMAIN deps)

\* No call has been recorded yet and none is between two commits: a
\* request can be served whole.
Open == last = NoCall /\ call = Idle

\* db.session.commit(): the store is what has been written.
Commit(db) ==
    /\ tasks' = db.tasks
    /\ subtasks' = db.subtasks
    /\ deps' = db.deps

\* A handler has answered: the store is what it committed.
Answer(r, op, id, arg, status) ==
    /\ tasks' = r.db.tasks
    /\ subtasks' = r.db.subtasks
    /\ deps' = r.db.deps
    /\ last' \in {NoCall, [op |-> op, id |-> id, arg |-> arg, status |-> status,
                           code |-> r.code, ret |-> r.ret, before |-> Store]}
    /\ call' = call

\* ---------------------------------------------------------------- actions
CreateTask(B) ==
    \E title \in TitleInputs, status \in B.create :
        /\ Open
        /\ NextId(tasks) <= B.tasks
        /\ Rows < B.rows
        /\ Answer(api_tasks(Store, title, status), "create_task",
                  IF title = "" THEN 0 ELSE NextId(tasks), 0, status)

UpdateTaskStatus(B) ==
    \E task_id \in 1..B.tasks, status \in StatusInputs, today \in B.days :
        /\ Open
        /\ Answer(api_update_task_status(Store, task_id, status, today),
                  "update_task_status", task_id, today, status)

EditTask(B) ==
    \E task_id \in 1..B.tasks :
        /\ Open
        /\ Answer(api_edit_task(Store, task_id), "edit_task", task_id, 0, "")

DeleteTask(B) ==
    \E task_id \in 1..B.tasks :
        /\ Open
        /\ Answer(api_delete_task(Store, task_id), "delete_task", task_id, 0, "")

CreateSubtask(B) ==
    \E task_id \in 0..B.tasks, title \in TitleInputs, today \in B.days :
        /\ Open
        /\ NextId(subtasks) <= B.subtasks
        /\ Rows < B.rows
        /\ Answer(api_create_subtask(Store, task_id, title, today),
                  "create_subtask", task_id, today, title)

ToggleSubtask(B) ==
    \E subtask_id \in 1..B.subtasks, today \in B.days :
        /\ Open
        /\ Answer(api_toggle_subtask(Store, subtask_id, today),
                  "toggle_subtask", subtask_id, today, "")

DeleteSubtask(B) ==
    \E subtask_id \in 1..B.subtasks, today \in B.days :
        /\ Open
        /\ Answer(api_delete_subtask(Store, subtask_id, today),
                  "delete_subtask", subtask_id, today, "")

AddDependency(B) ==
    \E task_id \in 0..B.tasks, depends_on_id \in 0..B.tasks :
        /\ Open
        /\ NextId(deps) <= B.deps
        /\ Rows < B.rows
        /\ Answer(api_add_dependency(Store, task_id, depends_on_id),
                  "add_dependency", task_id, depends_on_id, "")

DeleteDependency(B) ==
    \E dep_id \in 1..B.deps :
        /\ Open
        /\ Answer(api_delete_dependency(Store, dep_id), "delete_dependency", dep_id, 0, "")

Next ==
    \/ CreateTask(Narrow)
    \/ UpdateTaskStatus(Narrow)
    \/ EditTask(Narrow)
    \/ DeleteTask(Narrow)
    \/ CreateSubtask(Narrow)
    \/ ToggleSubtask(Narrow)
    \/ DeleteSubtask(Narrow)
    \/ AddDependency(Narrow)
    \/ DeleteDependency(Narrow)

Spec == Init /\ [][Next]_vars

NextWide ==
    \/ CreateTask(Wide)
    \/ UpdateTaskStatus(Wide)
    \/ EditTask(Wide)
    \/ DeleteTask(Wide)
    \/ CreateSubtask(Wide)
    \/ ToggleSubtask(Wide)
    \/ DeleteSubtask(Wide)
    \/ AddDependency(Wide)
    \/ DeleteDependency(Wide)

SpecWide == Init /\ [][NextWide]_vars

\* Stores built without deletions.
NextDeep ==
    \/ CreateTask(Deep)
    \/ UpdateTaskStatus(Deep)
    \/ EditTask(Deep)
    \/ CreateSubtask(Deep)
    \/ ToggleSubtask(Deep)
    \/ AddDependency(Deep)

SpecDeep == Init /\ [][NextDeep]_vars

NextDated ==
    \/ CreateTask(Dated)
    \/ UpdateTaskStatus(Dated)
    \/ EditTask(Dated)
    \/ DeleteTask(Dated)
    \/ CreateSubtask(Dated)
    \/ ToggleSubtask(Dated)
    \/ DeleteSubtask(Dated)
    \/ AddDependency(Dated)
    \/ DeleteDependency(Dated)

SpecDated == Init /\ [][NextDated]_vars

\* ------------------------------------------------------ one long task
\* flask db-seed, run on any store.
Seed ==
    \E payload \in SeedInputs :
        /\ Open
        /\ Commit(db_seed(payload))
        /\ UNCHANGED <<last, call>>

\* After the seed the calls name task 1 and subtask 1.
NextMany ==
    \/ Seed
    \/ CreateTask(Many)
    \/ UpdateTaskStatus(Many)
    \/ EditTask(Many)
    \/ DeleteTask(Many)
    \/ CreateSubtask(Many)
    \/ ToggleSubtask(Many)
    \/ DeleteSubtask(Many)

SpecMany == Init /\ [][NextMany]_vars

\* ------------------------------------------------- calls commit by commit
\* The three handlers that write, commit, recompute, commit and cascade are
\* served one commit at a time (Commit); what a commit has written is in
\* the store for every other request to read.  While a call is between two
\* commits the only other request served is the read of GET /api/tasks.
\* POST /api/tasks/<task_id>/status, accepted, up to its first commit.
BeginUpdateTaskStatus(B) ==
    \E task_id \in 1..B.tasks, status \in {"todo", "in_progress", "done"}, today \in B.days :
        /\ Open
        /\ api_update_task_status(Store, task_id, status, today).code = 200
        /\ Commit(StatusWrites(Store, task_id, status, today))
        /\ call' = [op |-> "update_task_status", id |-> task_id, task |-> task_id,
                    status |-> status, today |-> today, pc |-> "recompute", start |-> Store]
        /\ last' = last

\* Its progress and blocking status, up to the second commit.
StepRecompute ==
    /\ last = NoCall
    /\ call.pc = "recompute"
    /\ Commit(StatusRecompute(Store, call.task))
    /\ call' = [call EXCEPT !.pc = "cascade"]
    /\ last' = last

\* POST /api/subtasks/<subtask_id>/toggle, accepted, up to its first commit.
BeginToggleSubtask(B) ==
    \E subtask_id \in 1..B.subtasks, today \in B.days :
        /\ Open
        /\ api_toggle_subtask(Store, subtask_id, today).code = 200
        /\ Commit(ToggleFlip(Store, subtask_id))
        /\ call' = [op |-> "toggle_subtask", id |-> subtask_id,
                    task |-> subtasks[subtask_id].task_id,
                    status |-> "", today |-> today, pc |-> "derive", start |-> Store]
        /\ last' = last

\* The status of the parent, up to the second commit.
StepDerive ==
    /\ last = NoCall
    /\ call.pc = "derive"
    /\ Commit(ToggleDerive(Store, call.task, call.today))
    /\ call' = [call EXCEPT !.pc = "cascade"]
    /\ last' = last

\* update_dependents_status and its commit end both calls.
StepCascade ==
    /\ last = NoCall
    /\ call.pc = "cascade"
    /\ Commit(update_dependents_status(Store, call.task))
    /\ call' = Idle
    /\ last' = last

\* POST /api/tasks/<task_id>/delete, accepted, up to its first commit.
BeginDeleteTask(B) ==
    \E task_id \in 1..B.tasks :
        /\ Open
        /\ task_id \in DOMAIN tasks
        /\ Commit(DeleteRows(Store, task_id))
        /\ call' = [op |-> "delete_task", id |-> task_id, task |-> task_id,
                    status |-> "", today |-> 0, pc |-> "dependents", start |-> Store]
        /\ last' = last

\* The loop over the former dependents and the second commit end the call.
StepDependents ==
    /\ last = NoCall
    /\ call.pc = "dependents"
    /\ Commit(DeleteLoop(Store, call.start.deps, Incoming(call.start, call.id)))
    /\ call' = Idle
    /\ last' = last

\* GET /api/tasks: a request that reads the task table as it is committed.
GetTasks ==
    /\ last = NoCall
    /\ last' = [op |-> "get_tasks", id |-> 0, arg |-> 0, status |-> "", code |-> 200,
                ret |-> 0, before |-> Store]
    /\ UNCHANGED <<tasks, subtasks, deps, call>>

NextSteps ==
    \/ CreateTask(Stepped)
    \/ UpdateTaskStatus(Stepped)
    \/ EditTask(Stepped)
    \/ DeleteTask(Stepped)
    \/ CreateSubtask(Stepped)
    \/ ToggleSubtask(Stepped)
    \/ DeleteSubtask(Stepped)
    \/ AddDependency(Stepped)
    \/ DeleteDependency(Stepped)
    \/ BeginUpdateTaskStatus(Stepped)
    \/ StepRecompute
    \/ BeginToggleSubtask(Stepped)
    \/ StepDerive
    \/ StepCascade
    \/ BeginDeleteTask(Stepped)
    \/ StepDependents
    \/ GetTasks

SpecSteps == Init /\ [][NextSteps]_vars

\* ----------------------------------------------------------------- claims
\* Vocabulary of the claims, written from their wording.
Called == last.op # "none"
Before == last.before

\* t has a dependency edge whose target task exists and is not done.
HasUnmetDependency(db, t) ==
    \E d \in DOMAIN db.deps :
        /\ db.deps[d].task_id = t
        /\ db.deps[d].depends_on_id \in DOMAIN db.tasks
        /\ db.tasks[db.deps[d].depends_on_id].status # "done"

NumSubtasks(db, t) == Cardinality({s \in DOMAIN db.subtasks : db.subtasks[s].task_id = t})
NumDone(db, t) ==
    Cardinality({s \in DOMAIN db.subtasks : db.subtasks[s].task_id = t /\ db.subtasks[s].done})

\* round(100 * done / n, 1) in tenths of a percent: the tenth below the
\* exact value, or the next one when the remainder is half a tenth or more.
NearestTenth(done, n) ==
    LET below == (1000 * done) \div n
    IN  IF 2 * (1000 * done - below * n) < n THEN below ELSE below + 1

ExpectedProgress(db, t) ==
    IF NumSubtasks(db, t) = 0
    THEN (IF db.tasks[t].status = "done" THEN 1000 ELSE 0)
    ELSE NearestTenth(NumDone(db, t), NumSubtasks(db, t))

\* C1: in every reachable state, a task that is not done and has a
\* dependency on an existing task that is not done has status blocked.
C1_UnmetImpliesBlocked ==
    \A t \in DOMAIN tasks :
        (tasks[t].status # "done" /\ HasUnmetDependency(Store, t)) => tasks[t].status = "blocked"

\* C2: in every reachable state, a task with status blocked has a
\* dependency on an existing task that is not done.
C2_BlockedImpliesUnmet ==
    \A t \in DOMAIN tasks :
        tasks[t].status = "blocked" => HasUnmetDependency(Store, t)

\* C3: after every call, the stored progress of every task is the rounded
\* percentage of its done subtasks, or 100.0 / 0.0 by status when it has none.
C3_ProgressIsPercentage ==
    \A t \in DOMAIN tasks : tasks[t].progress = ExpectedProgress(Store, t)

\* The task a recorded call is about.
CalledTask ==
    IF last.op \in {"toggle_subtask", "delete_subtask"}
    THEN (IF last.id \in DOMAIN Before.subtasks THEN Before.subtasks[last.id].task_id ELSE 0)
    ELSE last.id

\* C3 witness: a call has changed the status of a task other than the one
\* it is about (a cascade), and a task has one of its three subtasks done.
C3_Witness ==
    /\ last.op \in {"update_task_status", "toggle_subtask"}
    /\ last.code = 200
    /\ \E t \in DOMAIN tasks \cap DOMAIN Before.tasks :
          t # CalledTask /\ tasks[t].status # Before.tasks[t].status
    /\ \E t \in DOMAIN tasks :
          NumSubtasks(Store, t) = 3 /\ NumDone(Store, t) = 1 /\ tasks[t].progress = 333

\* C4: a request for status done on a task with an unmet dependency fails
\* and leaves the whole store as it was.
C4_DoneWhileBlockedRejected ==
    (/\ last.op = "update_task_status"
     /\ last.status = "done"
     /\ last.id \in DOMAIN Before.tasks
     /\ HasUnmetDependency(Before, last.id))
    => (last.code >= 400 /\ Store = Before)

\* C4 witness: such a request was rejected on a task that has a subtask
\* not done.
C4_Witness ==
    /\ last.op = "update_task_status"
    /\ last.status = "done"
    /\ last.code = 400
    /\ last.id \in DOMAIN Before.tasks
    /\ HasUnmetDependency(Before, last.id)
    /\ NumSubtasks(Before, last.id) > NumDone(Before, last.id)

\* C5: no call turns a task from not done to done while, at the end of the
\* call, the task has a dependency on an existing task that is not done.
C5_NoDoneWithUnmetDependency ==
    Called =>
        \A t \in DOMAIN tasks \cap DOMAIN Before.tasks :
            (Before.tasks[t].status # "done" /\ tasks[t].status = "done")
            => ~HasUnmetDependency(Store, t)

\* C5 witness: the cascade has turned a dependent of the changed task from
\* blocked to done.
C5_Witness ==
    /\ last.op \in {"update_task_status", "toggle_subtask"}
    /\ last.code = 200
    /\ \E t \in DOMAIN tasks \cap DOMAIN Before.tasks :
          /\ \E d \in DOMAIN deps : deps[d].task_id = t /\ deps[d].depends_on_id \in DOMAIN tasks
          /\ Before.tasks[t].status = "blocked"
          /\ tasks[t].status = "done"

\* The parent task of the subtask a toggle or delete call names.
ParentBefore == CalledTask

\* C6: toggling or deleting a subtask whose parent has an unmet dependency
\* is rejected and leaves the whole store as it was.
C6_SubtaskCallsRejectedWhileBlocked ==
    (/\ last.op \in {"toggle_subtask", "delete_subtask"}
     /\ last.id \in DOMAIN Before.subtasks
     /\ ParentBefore \in DOMAIN Before.tasks
     /\ HasUnmetDependency(Before, ParentBefore))
    => (last.code >= 400 /\ Store = Before)

\* C6 witness: a toggle was rejected for a parent that has dependents.
C6_Witness ==
    /\ last.op = "toggle_subtask"
    /\ last.code = 400
    /\ last.id \in DOMAIN Before.subtasks
    /\ HasUnmetDependency(Before, ParentBefore)
    /\ \E d \in DOMAIN Before.deps : Before.deps[d].depends_on_id = ParentBefore

\* The edges of db from task a to task b.
EdgesBetween(db, a, b) ==
    {d \in DOMAIN db.deps : db.deps[d].task_id = a /\ db.deps[d].depends_on_id = b}

\* C7: no two edges join the same pair, and adding an edge that exists
\* succeeds, answers with the existing edge and changes nothing.
C7_DuplicateEdgeIdempotent ==
    /\ \A d1, d2 \in DOMAIN deps : deps[d1] = deps[d2] => d1 = d2
    /\ (last.op = "add_dependency" /\ EdgesBetween(Before, last.id, last.arg) # {})
       => (/\ last.code = 200
           /\ last.ret \in EdgesBetween(Before, last.id, last.arg)
           /\ Store = Before)

\* C7 witness: an existing edge was added again and the call succeeded.
C7_Witness ==
    /\ last.op = "add_dependency"
    /\ EdgesBetween(Before, last.id, last.arg) # {}
    /\ last.code = 200
    /\ last.id \in DOMAIN tasks

\* C8: adding an edge from a task to itself is rejected and creates no
\* edge; no edge of the store joins a task to itself.
C8_NoSelfDependency ==
    /\ \A d \in DOMAIN deps : deps[d].task_id # deps[d].depends_on_id
    /\ (last.op = "add_dependency" /\ last.id = last.arg)
       => (last.code = 400 /\ deps = Before.deps)

\* C8 witness: an edge from an existing task to itself was asked for and
\* rejected.
C8_Witness ==
    /\ last.op = "add_dependency"
    /\ last.id = last.arg
    /\ last.id \in DOMAIN Before.tasks
    /\ last.code = 400

\* Rows of a table that do not touch task x.
SubtasksAway(db, x) == {s \in DOMAIN db.subtasks : db.subtasks[s].task_id # x}
EdgesAway(db, x) ==
    {d \in DOMAIN db.deps : db.deps[d].task_id # x /\ db.deps[d].depends_on_id # x}

\* C9: after a successful delete of task X the store holds no task X, no
\* subtask of X and no edge from or to X; the other subtasks and edges are
\* as before.
C9_DeleteTaskCascades ==
    (last.op = "delete_task" /\ last.code = 200)
    => (/\ last.id \notin DOMAIN tasks
        /\ DOMAIN subtasks = SubtasksAway(Before, last.id)
        /\ DOMAIN deps = EdgesAway(Before, last.id)
        /\ \A s \in DOMAIN subtasks : subtasks[s] = Before.subtasks[s]
        /\ \A d \in DOMAIN deps : deps[d] = Before.deps[d])

\* C9 witness: the deleted task had a subtask, an edge from it and an edge
\* to it.
C9_Witness ==
    /\ last.op = "delete_task"
    /\ last.code = 200
    /\ NumSubtasks(Before, last.id) > 0
    /\ \E d \in DOMAIN Before.deps : Before.deps[d].task_id = last.id
    /\ \E d \in DOMAIN Before.deps : Before.deps[d].depends_on_id = last.id

\* The tasks that depended on the deleted task and still exist.
FormerDependents ==
    {t \in DOMAIN tasks :
        \E d \in DOMAIN Before.deps :
            Before.deps[d].task_id = t /\ Before.deps[d].depends_on_id = last.id}

\* C10: after a successful delete of task X, a former dependent that was
\* blocked and has no unmet dependency left is in_progress when its
\* progress is above 0 and todo otherwise; one that still has an unmet
\* dependency and is not done is blocked.
C10_DependentsRecomputedAfterDelete ==
    (last.op = "delete_task" /\ last.code = 200)
    => \A t \in FormerDependents :
          /\ (Before.tasks[t].status = "blocked" /\ ~HasUnmetDependency(Store, t))
             => tasks[t].status = (IF tasks[t].progress > 0 THEN "in_progress" ELSE "todo")
          /\ (HasUnmetDependency(Store, t) /\ tasks[t].status # "done")
             => tasks[t].status = "blocked"

\* C10 witness: a blocked dependent with a done subtask was released by
\* the delete.
C10_Witness ==
    /\ last.op = "delete_task"
    /\ last.code = 200
    /\ \E t \in FormerDependents :
          /\ Before.tasks[t].status = "blocked"
          /\ ~HasUnmetDependency(Store, t)
          /\ NumDone(Store, t) > 0

\* A dependent that depends on another task too stayed blocked after the
\* delete.
C10_StillBlocked ==
    /\ last.op = "delete_task"
    /\ last.code = 200
    /\ \E t \in FormerDependents :
          /\ Before.tasks[t].status = "blocked"
          /\ HasUnmetDependency(Store, t)
          /\ tasks[t].status = "blocked"

\* The existing tasks of db with an edge on task t.
DirectDependents(db, t) ==
    {d \in DOMAIN db.tasks :
        \E e \in DOMAIN db.deps : db.deps[e].task_id = d /\ db.deps[e].depends_on_id = t}

StatusByProgress(p) ==
    IF p = 1000 THEN "done" ELSE IF p > 0 THEN "in_progress" ELSE "todo"

\* C11: after a successful status change or toggle on task T, every task D
\* with an edge on T is blocked when it has an unmet dependency and is not
\* done, has the status its progress gives when it was blocked and has no
\* unmet dependency left, and has its former status otherwise.
C11_DependentsFollowCascade ==
    (last.op \in {"update_task_status", "toggle_subtask"} /\ last.code = 200)
    => \A D \in DirectDependents(Store, CalledTask) :
          IF HasUnmetDependency(Store, D) /\ tasks[D].status # "done"
          THEN tasks[D].status = "blocked"
          ELSE IF Before.tasks[D].status = "blocked" /\ ~HasUnmetDependency(Store, D)
          THEN tasks[D].status = StatusByProgress(tasks[D].progress)
          ELSE tasks[D].status = Before.tasks[D].status

\* C12: a successful toggle flips the done flag of the named subtask and of
\* no other, stores the recomputed progress of the parent, and leaves the
\* parent done with both dates set at progress 100.0, in_progress with
\* started_at set and completed_at cleared at a progress between 0 and 100
\* when it was not done before, and todo with completed_at cleared otherwise.
C12_ToggleDerivesParent ==
    (last.op = "toggle_subtask" /\ last.code = 200)
    => LET t == CalledTask
           p == tasks[t].progress
       IN  /\ DOMAIN subtasks = DOMAIN Before.subtasks
           /\ \A s \in DOMAIN subtasks :
                 /\ subtasks[s].task_id = Before.subtasks[s].task_id
                 /\ subtasks[s].done =
                        (IF s = last.id THEN ~Before.subtasks[s].done ELSE Before.subtasks[s].done)
           /\ p = NearestTenth(NumDone(Store, t), NumSubtasks(Store, t))
           /\ IF p = 1000
              THEN /\ tasks[t].status = "done"
                   /\ tasks[t].completed_at # NoDate
                   /\ tasks[t].started_at # NoDate
              ELSE IF p > 0 /\ Before.tasks[t].status # "done"
              THEN /\ tasks[t].status = "in_progress"
                   /\ tasks[t].started_at # NoDate
                   /\ tasks[t].completed_at = NoDate
              ELSE /\ tasks[t].status = "todo"
                   /\ tasks[t].completed_at = NoDate

\* C12 witness: one of several done subtasks of a done task was toggled
\* back: the task is left todo with a progress above 0.
C12_Witness ==
    /\ last.op = "toggle_subtask"
    /\ last.code = 200
    /\ Before.tasks[CalledTask].status = "done"
    /\ tasks[CalledTask].progress > 0
    /\ tasks[CalledTask].progress < 1000
    /\ tasks[CalledTask].status = "todo"

\* A toggle has moved a task with completed_at set to in_progress.
C12_CompletedCleared ==
    /\ last.op = "toggle_subtask"
    /\ last.code = 200
    /\ Before.tasks[CalledTask].completed_at # NoDate
    /\ Before.tasks[CalledTask].status # "done"
    /\ tasks[CalledTask].status = "in_progress"

\* C13: a successful request for status done leaves the task done with all
\* its subtasks done, progress 100.0 and both dates set; a date that was set
\* before the call has the value it had.
C13_DoneRequestCompletes ==
    (last.op = "update_task_status" /\ last.status = "done" /\ last.code = 200)
    => LET t == last.id
           was == Before.tasks[t]
       IN  /\ tasks[t].status = "done"
           /\ \A s \in DOMAIN subtasks : subtasks[s].task_id = t => subtasks[s].done
           /\ tasks[t].progress = 1000
           /\ tasks[t].completed_at # NoDate
           /\ tasks[t].started_at # NoDate
           /\ was.completed_at # NoDate => tasks[t].completed_at = was.completed_at
           /\ was.started_at # NoDate => tasks[t].started_at = was.started_at

\* C13 witness: a task that was not done, with a subtask not done and both
\* dates set on an earlier day, was set done; its dates are the earlier day.
C13_Witness ==
    /\ last.op = "update_task_status"
    /\ last.status = "done"
    /\ last.code = 200
    /\ Before.tasks[last.id].status # "done"
    /\ NumDone(Before, last.id) < NumSubtasks(Before, last.id)
    /\ Before.tasks[last.id].completed_at \notin {NoDate, last.arg}
    /\ Before.tasks[last.id].started_at \notin {NoDate, last.arg}
    /\ tasks[last.id].completed_at # last.arg

\* A task without dates was set done: both dates are the day of the call.
C13_DatesSet ==
    /\ last.op = "update_task_status"
    /\ last.status = "done"
    /\ last.code = 200
    /\ Before.tasks[last.id].completed_at = NoDate
    /\ Before.tasks[last.id].started_at = NoDate
    /\ tasks[last.id].completed_at = last.arg
    /\ tasks[last.id].started_at = last.arg

\* C14: a call that fails (an answer of 400 or above) leaves the three
\* tables as they were before the call; an add-dependency call for a new
\* edge between two different ids, naming a task_id that does not exist,
\* fails as not found and leaves no new edge.
C14_FailureLeavesStore ==
    /\ (Called /\ last.code >= 400) => Store = Before
    /\ (/\ last.op = "add_dependency"
        /\ last.id # 0
        /\ last.arg \notin {0, last.id}
        /\ EdgesBetween(Before, last.id, last.arg) = {}
        /\ last.id \notin DOMAIN Before.tasks)
       => (last.code = 404 /\ deps = Before.deps)

\* The statuses a stored task may have.
StatusDomain == {"todo", "in_progress", "done", "blocked"}

\* C15: every stored task has one of the four statuses; no request stores
\* a status it carries outside todo, in_progress and done.
C15_StatusInDomain ==
    /\ \A t \in DOMAIN tasks : tasks[t].status \in StatusDomain
    /\ (/\ last.op \in {"create_task", "update_task_status"}
        /\ last.status \notin {"", "todo", "in_progress", "done"}
        /\ last.code = 200)
       => tasks[last.id].status # last.status

\* The store a call in flight leaves when it is served whole from the store
\* it started from.
Whole(c) ==
    IF c.op = "update_task_status"
    THEN api_update_task_status(c.start, c.id, c.status, c.today).db
    ELSE IF c.op = "toggle_subtask"
    THEN api_toggle_subtask(c.start, c.id, c.today).db
    ELSE api_delete_task(c.start, c.id).db

\* C16: a request that reads the tasks while another call is between two
\* of its commits sees either the tasks as that call found them or the
\* tasks as that call leaves them, never the writes without the
\* recomputation, derivation and cascade.
C16_NoIntermediateStateObserved ==
    (last.op = "get_tasks" /\ call # Idle)
    => tasks \in {call.start.tasks, Whole(call).tasks}

\* C17: a successful status change or toggle on task C writes no task other
\* than C and the tasks with an edge on C: every other task, a task that
\* depends on a dependent of C among them, has the status, progress and
\* dates it had.
C17_CascadeSingleHop ==
    (last.op \in {"update_task_status", "toggle_subtask"} /\ last.code = 200)
    => /\ DOMAIN tasks = DOMAIN Before.tasks
       /\ \A a \in DOMAIN tasks :
             (a # CalledTask /\ a \notin DirectDependents(Before, CalledTask))
             => tasks[a] = Before.tasks[a]

\* C17 witness: A depends on B, B depends on C, A has no edge on C; the
\* call on C has made B done, and A is blocked as before.
C17_Witness ==
    /\ last.op \in {"update_task_status", "toggle_subtask"}
    /\ last.code = 200
    /\ \E a, b \in DOMAIN tasks :
          /\ b \in DirectDependents(Before, CalledTask)
          /\ a \in DirectDependents(Before, b)
          /\ a \notin DirectDependents(Before, CalledTask) \cup {CalledTask}
          /\ Before.tasks[b].status # "done"
          /\ tasks[b].status = "done"
          /\ tasks[a].status = "blocked"
          /\ tasks[a] = Before.tasks[a]

\* Task t has an edge whose target task does not exist, and no edge whose
\* target exists and is not done.
OnlyDanglingUnmet(db, t) ==
    /\ \E d \in DOMAIN db.deps :
          db.deps[d].task_id = t /\ db.deps[d].depends_on_id \notin DOMAIN db.tasks
    /\ ~HasUnmetDependency(db, t)

\* C18: for a task whose only unmet edges are dangling, toggling and
\* deleting its subtasks succeed, a request for status done succeeds and
\* leaves it done, and no call that finds it so and leaves it so turns it
\* blocked.
C18_DanglingEdgeIgnored ==
    /\ (/\ last.op \in {"toggle_subtask", "delete_subtask"}
        /\ last.id \in DOMAIN Before.subtasks
        /\ CalledTask \in DOMAIN Before.tasks
        /\ OnlyDanglingUnmet(Before, CalledTask))
       => (/\ last.code = 200
           /\ last.op = "toggle_subtask"
              => subtasks[last.id].done = ~Before.subtasks[last.id].done
           /\ last.op = "delete_subtask" => last.id \notin DOMAIN subtasks)
    /\ (/\ last.op = "update_task_status"
        /\ last.status = "done"
        /\ last.id \in DOMAIN Before.tasks
        /\ OnlyDanglingUnmet(Before, last.id))
       => (last.code = 200 /\ tasks[last.id].status = "done")
    /\ Called
       => \A t \in DOMAIN tasks :
             (/\ t \in DOMAIN Before.tasks => OnlyDanglingUnmet(Before, t)
              /\ OnlyDanglingUnmet(Store, t)
              /\ tasks[t].status = "blocked")
             => (t \in DOMAIN Before.tasks /\ Before.tasks[t].status = "blocked")

\* C18 witness: a subtask of a task with a dangling edge was toggled, or
\* such a task was set done, and the task is done after the call.
C18_Witness ==
    /\ last.op \in {"toggle_subtask", "update_task_status"}
    /\ last.code = 200
    /\ CalledTask \in DOMAIN Before.tasks
    /\ OnlyDanglingUnmet(Before, CalledTask)
    /\ NumSubtasks(Before, CalledTask) > 0
    /\ Before.tasks[CalledTask].status # "done"
    /\ tasks[CalledTask].status = "done"

\* A subtask of a task with a dangling edge was deleted.
C18_SubtaskDeleted ==
    /\ last.op = "delete_subtask"
    /\ last.code = 200
    /\ CalledTask \in DOMAIN Before.tasks
    /\ OnlyDanglingUnmet(Before, CalledTask)

\* The status deriver has run on a task with a dangling edge that was not
\* blocked, and has left it not blocked.
C18_DeriverRan ==
    /\ last.op \in {"edit_task", "add_dependency"}
    /\ last.code = 200
    /\ last.id \in DOMAIN tasks
    /\ OnlyDanglingUnmet(Store, last.id)
    /\ tasks[last.id].status = "todo"

\* C19: every done task has progress 100.0 and no subtask that is not done.
C19_DoneIsComplete ==
    \A t \in DOMAIN tasks :
        tasks[t].status = "done"
        => (tasks[t].progress = 1000 /\ NumDone(Store, t) = NumSubtasks(Store, t))


\* C20: whenever a call turns an existing task from not done to done, the
\* task has completed_at set after the call.
C20_DoneHasCompletedAt ==
    Called =>
        \A t \in DOMAIN tasks \cap DOMAIN Before.tasks :
            (Before.tasks[t].status # "done" /\ tasks[t].status = "done")
            => tasks[t].completed_at # NoDate

\* C20 witness: the cascade has made a blocked dependent of the changed
\* task done, and the dependent has completed_at set.
C20_Witness ==
    /\ last.op \in {"update_task_status", "toggle_subtask"}
    /\ last.code = 200
    /\ \E t \in DirectDependents(Store, CalledTask) :
          /\ Before.tasks[t].status = "blocked"
          /\ tasks[t].status = "done"
          /\ tasks[t].completed_at # NoDate

\* The deletion of a subtask has made a task without completed_at done.
C20_ByDeletion ==
    /\ last.op = "delete_subtask"
    /\ last.code = 200
    /\ Before.tasks[CalledTask].status # "done"
    /\ Before.tasks[CalledTask].completed_at = NoDate
    /\ tasks[CalledTask].status = "done"
    /\ tasks[CalledTask].completed_at # NoDate

\* C21: every task with status todo has progress 0.0 and no subtask marked
\* done; in particular a toggle that takes one of several done subtasks of a
\* done task back does not leave the task todo with a progress above 0.
C21_TodoHasNoProgress ==
    /\ \A t \in DOMAIN tasks :
          tasks[t].status = "todo"
          => (tasks[t].progress = 0 /\ NumDone(Store, t) = 0)
    /\ (/\ last.op = "toggle_subtask"
        /\ last.code = 200
        /\ Before.tasks[CalledTask].status = "done"
        /\ NumDone(Before, CalledTask) > 1)
       => ~(tasks[CalledTask].status = "todo" /\ tasks[CalledTask].progress > 0)

====
